---- MODULE Spec2Model ----
(***************************************************************************)
(* Little Star English: the React application shell (src/App.tsx) and the  *)
(* Gemini service wrappers (services/gemini: src/unnamed/part_000) with    *)
(* the audio decode-and-playback pipeline they drive.                      *)
(***************************************************************************)
EXTENDS Integers, Sequences, FiniteSets, TLC

VARIABLES
    \* ---- App component state (src/App.tsx 17-25)
    view,            \* ViewState
    loading,         \* shared loading flag
    currentLesson,   \* LessonContent | null
    chatHistory,     \* ChatMessage[]
    inputMessage,    \* the chat input's text
    \* ---- requests awaited by the App handlers
    lessonPending,   \* topics of the generateLesson calls in flight
    chatPending,     \* user texts of the sendChatMessage calls in flight
    lastLoad,        \* how the latest handleTopicSelect ended: its alert or not
    \* ---- services/gemini module state and the playTextToSpeech calls
    audioContext,    \* the module-level singleton: NULL or a context id
    ctxCreated,      \* number of AudioContext objects constructed so far
    ctxState,        \* AudioContextState of the context
    resumeCalls,     \* number of audioContext.resume() calls made
    resumePending,   \* a resume() promise is not yet settled
    pc,              \* per call: position in playTextToSpeech
    ctxOf,           \* per call: the local `ctx`
    playback,        \* per call: the playback's state
    futureResolved,  \* per call: times playAudioBuffer's future resolved
    ttsLog,          \* per call: what console.error("TTS Error:") logged
    startedIn,       \* per call: ctxState observed when playAudioBuffer ran
    completed,       \* ids of the settled calls, in settlement order
    overlapSeen,     \* TRUE once two playbacks were playing together
    \* ---- PCM frame interpreter inputs and output
    pcmBytes, pcmChannels, pcmFrame

appVars == <<view, loading, currentLesson, chatHistory, inputMessage,
             lessonPending, chatPending, lastLoad>>
ctxVars == <<audioContext, ctxCreated, ctxState, resumeCalls, resumePending>>
callVars == <<pc, ctxOf, playback, futureResolved, ttsLog, startedIn,
              completed, overlapSeen>>
pcmVars == <<pcmBytes, pcmChannels, pcmFrame>>
vars == <<appVars, ctxVars, callVars, pcmVars>>

\* null: no AudioContext (context ids are 1, 2, ...), no lesson.
NULL == 0
NOLESSON == [title |-> "null", vocabulary |-> 0, quiz |-> 0]

\* ------------------------------------------------------------------ bounds
MaxSends == 2
MaxCalls == 2
MaxBytes == 4

\* ------------------------------------------------------------ App: data
HOME == "HOME"
LESSON == "LESSON"
CHAT == "CHAT"
ViewState == {HOME, LESSON, CHAT}

Topics == {"Animals", "Colors"}

\* Strings the user can type, as character sequences.
Inputs == {<<>>, <<" ">>, <<"h", "i">>, <<" ", "o", "k", " ">>}

GREETING == "Hello! I am Star Teacher."
FALLBACK == "Oops! I had trouble connecting. Please say that again."
NOTEXT == "Sorry, I didn't catch that."

IsSpace(ch) == ch = " "

RECURSIVE TrimStart(_)
TrimStart(s) ==
    IF s = <<>> THEN s
    ELSE IF IsSpace(Head(s)) THEN TrimStart(Tail(s)) ELSE s

RECURSIVE TrimEnd(_)
TrimEnd(s) ==
    IF s = <<>> THEN s
    ELSE IF IsSpace(s[Len(s)]) THEN TrimEnd(SubSeq(s, 1, Len(s) - 1)) ELSE s

\* String.prototype.trim
trim(s) == TrimEnd(TrimStart(s))

\* !inputMessage.trim()
IsBlank(s) == trim(s) = <<>>

UserCount(h) == Cardinality({i \in 1..Len(h) : h[i].role = "user"})

\* ------------------------------------------------- services: generateLesson
\* What ai.models.generateContent can yield for a lesson request.
LessonResponses == {"full", "empty", "noText", "badJson", "apiError"}

\* generateLesson(topic): the lesson it returns, or the error it throws.
generateLesson(topic, resp) ==
    CASE resp = "apiError" -> [ok |-> FALSE, error |-> "api error"]
      [] resp = "noText"   -> [ok |-> FALSE, error |-> "Failed to generate lesson content"]
      [] resp = "badJson"  -> [ok |-> FALSE, error |-> "Invalid lesson format received"]
      [] resp = "empty"    -> [ok |-> TRUE,
                               lesson |-> [title |-> "Untitled Lesson",
                                           vocabulary |-> 0, quiz |-> 0]]
      [] OTHER             -> [ok |-> TRUE,
                               lesson |-> [title |-> topic,
                                           vocabulary |-> 1, quiz |-> 1]]

\* --------------------------------------------------- services: sendChatMessage
ChatResponses == {"text", "noText", "apiError"}

\* sendChatMessage(history, newMessage): the reply text, or a rejection.
sendChatMessage(resp) ==
    CASE resp = "apiError" -> [ok |-> FALSE, text |-> ""]
      [] resp = "noText"   -> [ok |-> TRUE, text |-> NOTEXT]
      [] OTHER             -> [ok |-> TRUE, text |-> "Good job!"]

RemoveAt(s, i) == SubSeq(s, 1, i - 1) \o SubSeq(s, i + 1, Len(s))

\* ------------------------------------------------------------ App: gating
\* Topic buttons without the disabled attribute.
TopicButtonUngated == view = HOME

\* Chat input without the disabled attribute.
ChatInputUngated == view = CHAT

\* disabled={loading} on the topic buttons, rendered in the HOME view only.
TopicButtonEnabled == view = HOME /\ ~loading

\* disabled={loading} on the chat input, rendered in the CHAT view only.
ChatInputEnabled == view = CHAT /\ ~loading

\* disabled={!inputMessage.trim() || loading} on the send button.
SendButtonEnabled == view = CHAT /\ ~(IsBlank(inputMessage) \/ loading)

\* ------------------------------------------------------------ App: actions
\* Header onHome, and the lesson view's "Back to Home".
GoHome ==
    /\ view' = HOME
    /\ UNCHANGED <<loading, currentLesson, chatHistory, inputMessage,
                   lessonPending, chatPending, lastLoad>>
    /\ UNCHANGED <<ctxVars, callVars, pcmVars>>

\* "Chat with Teacher" on the home view.
GoChat ==
    /\ view = HOME
    /\ view' = CHAT
    /\ UNCHANGED <<loading, currentLesson, chatHistory, inputMessage,
                   lessonPending, chatPending, lastLoad>>
    /\ UNCHANGED <<ctxVars, callVars, pcmVars>>

\* handleTopicSelect up to its await.
HandleTopicSelect(topic) ==
    /\ TopicButtonEnabled
    /\ loading' = TRUE
    /\ lessonPending' = Append(lessonPending, topic)
    /\ UNCHANGED <<view, currentLesson, chatHistory, inputMessage, chatPending,
                   lastLoad>>
    /\ UNCHANGED <<ctxVars, callVars, pcmVars>>

\* A handleTopicSelect whose setView(LESSON) sits in the finally block.
TopicSelectSettleViewInFinally(i, resp) ==
    /\ i \in 1..Len(lessonPending)
    /\ LET r == generateLesson(lessonPending[i], resp) IN
         IF r.ok
         THEN currentLesson' = r.lesson /\ lastLoad' = "ok"
         ELSE lastLoad' = "alert" /\ UNCHANGED currentLesson
    /\ view' = LESSON
    /\ loading' = FALSE
    /\ lessonPending' = RemoveAt(lessonPending, i)
    /\ UNCHANGED <<chatHistory, inputMessage, chatPending>>
    /\ UNCHANGED <<ctxVars, callVars, pcmVars>>

\* A handleTopicSelect whose catch block clears the lesson and goes home.
TopicSelectSettleResets(i, resp) ==
    /\ i \in 1..Len(lessonPending)
    /\ LET r == generateLesson(lessonPending[i], resp) IN
         IF r.ok
         THEN /\ currentLesson' = r.lesson
              /\ view' = LESSON
              /\ lastLoad' = "ok"
         ELSE /\ lastLoad' = "alert"
              /\ currentLesson' = NOLESSON
              /\ view' = HOME
    /\ loading' = FALSE
    /\ lessonPending' = RemoveAt(lessonPending, i)
    /\ UNCHANGED <<chatHistory, inputMessage, chatPending>>
    /\ UNCHANGED <<ctxVars, callVars, pcmVars>>

\* handleTopicSelect after its await: try / catch / finally.
TopicSelectSettle(i, resp) ==
    /\ i \in 1..Len(lessonPending)
    /\ LET r == generateLesson(lessonPending[i], resp) IN
         IF r.ok
         THEN /\ currentLesson' = r.lesson
              /\ view' = LESSON
              /\ lastLoad' = "ok"
         ELSE /\ lastLoad' = "alert"
              /\ UNCHANGED <<currentLesson, view>>
    /\ loading' = FALSE
    /\ lessonPending' = RemoveAt(lessonPending, i)
    /\ UNCHANGED <<chatHistory, inputMessage, chatPending>>
    /\ UNCHANGED <<ctxVars, callVars, pcmVars>>

\* onChange of the chat input.
OnInputChange(text) ==
    /\ ChatInputEnabled
    /\ inputMessage' = text
    /\ UNCHANGED <<view, loading, currentLesson, chatHistory,
                   lessonPending, chatPending, lastLoad>>
    /\ UNCHANGED <<ctxVars, callVars, pcmVars>>

\* handleSendMessage up to its await; reached by the send button or by Enter
\* in the input.
HandleSendMessage ==
    /\ SendButtonEnabled \/ ChatInputEnabled
    /\ IF IsBlank(inputMessage)
       THEN UNCHANGED <<chatHistory, inputMessage, loading, chatPending>>
       ELSE /\ UserCount(chatHistory) < MaxSends
            /\ chatHistory' = Append(chatHistory,
                                     [role |-> "user", text |-> inputMessage])
            /\ inputMessage' = <<>>
            /\ loading' = TRUE
            /\ chatPending' = Append(chatPending, inputMessage)
    /\ UNCHANGED <<view, currentLesson, lessonPending, lastLoad>>
    /\ UNCHANGED <<ctxVars, callVars, pcmVars>>

\* handleSendMessage after its await: try / catch / finally.
SendMessageSettle(i, resp) ==
    /\ i \in 1..Len(chatPending)
    /\ LET r == sendChatMessage(resp) IN
         chatHistory' = Append(chatHistory,
             [role |-> "model", text |-> IF r.ok THEN r.text ELSE FALLBACK])
    /\ loading' = FALSE
    /\ chatPending' = RemoveAt(chatPending, i)
    /\ UNCHANGED <<view, currentLesson, inputMessage, lessonPending, lastLoad>>
    /\ UNCHANGED <<ctxVars, callVars, pcmVars>>

AppNext ==
    \/ GoHome
    \/ GoChat
    \/ \E t \in Topics : HandleTopicSelect(t)
    \/ \E i \in 1..Len(lessonPending), r \in LessonResponses : TopicSelectSettle(i, r)
    \/ \E s \in Inputs : OnInputChange(s)
    \/ HandleSendMessage
    \/ \E i \in 1..Len(chatPending), r \in ChatResponses : SendMessageSettle(i, r)

\* ------------------------------------------- services: the audio context
Calls == 1..MaxCalls

Rejected == "rejected"
Done == "done"

\* State a freshly constructed AudioContext can be in (autoplay policy).
NewContextStates == {"suspended", "running"}

\* A getAudioContext that constructs a context on every call.
ContextAlwaysAbsent == TRUE

\* if (!audioContext)
ContextAbsent == audioContext = NULL

\* getAudioContext(): the singleton after the call, creating it when absent.
ContextAfterGet == IF ContextAbsent THEN ctxCreated + 1 ELSE audioContext

\* getAudioContext(), `init` being the state the host gives a new context.
getAudioContext(init) ==
    LET st == IF ContextAbsent THEN init ELSE ctxState IN
    /\ audioContext' = ContextAfterGet
    /\ ctxCreated' = IF ContextAbsent THEN ctxCreated + 1 ELSE ctxCreated
    /\ ctxState' = st
    /\ IF st = "suspended"
       THEN /\ resumeCalls' = resumeCalls + 1
            /\ resumePending' = TRUE
       ELSE UNCHANGED <<resumeCalls, resumePending>>

\* The promise of audioContext.resume() settles; nothing awaits it.
ResumeSettle(ok) ==
    /\ resumePending
    /\ resumePending' = FALSE
    /\ ctxState' = IF ok THEN "running" ELSE ctxState
    /\ UNCHANGED <<audioContext, ctxCreated, resumeCalls>>
    /\ UNCHANGED <<appVars, callVars, pcmVars>>

\* ------------------------------------------ services: playTextToSpeech
\* A catch block that rethrows what it caught.
CatchRethrows(err) == Rejected

\* A catch block that swallows playback errors only and rethrows the rest.
CatchRethrowsDecode(err) == IF err = "decode" THEN Rejected ELSE Done

\* The catch block of playTextToSpeech: console.error, nothing rethrown.
CatchResult(err) == Done

\* The call's promise settles: recorded in settlement order.
Settle(c, to, log) ==
    /\ pc' = [pc EXCEPT ![c] = to]
    /\ ttsLog' = [ttsLog EXCEPT ![c] = log]
    /\ completed' = Append(completed, c)

\* A button that calls playTextToSpeech is on screen: the lesson view's
\* speaker, story and quiz buttons, or a model message's speaker in the chat.
SpeakButtonShown ==
    \/ view = LESSON /\ currentLesson # NOLESSON
    \/ view = CHAT /\ \E i \in 1..Len(chatHistory) : chatHistory[i].role = "model"

\* Speak buttons that are disabled while an earlier call is pending.
CanIssueExclusive(c) ==
    /\ pc[c] = "idle"
    /\ \A d \in Calls : d < c => pc[d] \in {Done, Rejected}
    /\ SpeakButtonShown

\* No speak button is ever disabled: a click starts a call whatever the
\* earlier calls are doing.
CanIssue(c) ==
    /\ pc[c] = "idle"
    /\ \A d \in Calls : d < c => pc[d] # "idle"
    /\ SpeakButtonShown

SyncOutcomes == {"ok", "clientThrows", "ctxThrows"}

\* playTextToSpeech from its start to the first await.
PlayTextToSpeech(c, out, init) ==
    /\ CanIssue(c)
    /\ CASE out = "clientThrows" ->
              /\ Settle(c, CatchResult("client"), "client")
              /\ UNCHANGED <<ctxVars, ctxOf>>
         [] out = "ctxThrows" ->
              /\ audioContext = NULL
              /\ Settle(c, CatchResult("context"), "context")
              /\ UNCHANGED <<ctxVars, ctxOf>>
         [] OTHER ->
              /\ getAudioContext(init)
              /\ ctxOf' = [ctxOf EXCEPT ![c] = ContextAfterGet]
              /\ pc' = [pc EXCEPT ![c] = "awaitTTS"]
              /\ UNCHANGED <<ttsLog, completed>>
    /\ UNCHANGED <<playback, futureResolved, startedIn, overlapSeen>>
    /\ UNCHANGED <<appVars, pcmVars>>

TtsResponses == {"apiError", "noAudio", "badBase64", "audio"}

\* The TTS request settles: the response is read and decode() is applied.
TtsResponse(c, resp) ==
    /\ pc[c] = "awaitTTS"
    /\ CASE resp = "apiError"  -> Settle(c, CatchResult("api"), "api")
         [] resp = "noAudio"   -> Settle(c, Done, "none")
         [] resp = "badBase64" -> Settle(c, CatchResult("decode"), "decode")
         [] OTHER -> /\ pc' = [pc EXCEPT ![c] = "awaitDecode"]
                     /\ UNCHANGED <<ttsLog, completed>>
    /\ UNCHANGED <<ctxOf, playback, futureResolved, startedIn, overlapSeen>>
    /\ UNCHANGED <<appVars, ctxVars, pcmVars>>

DecodeOutcomes == {"pcmRejects", "playThrows", "play"}

\* `await decodeAudioData(...)` settles, and on success playAudioBuffer is
\* called with the buffer and the call's ctx.
DecodeSettle(c, out) ==
    /\ pc[c] = "awaitDecode"
    /\ CASE out = "pcmRejects" ->
              /\ Settle(c, CatchResult("pcm"), "pcm")
              /\ UNCHANGED <<playback, startedIn>>
         [] out = "playThrows" ->
              /\ Settle(c, CatchResult("play"), "play")
              /\ UNCHANGED <<playback, startedIn>>
         [] OTHER ->
              /\ playback' = [playback EXCEPT ![c] = "scheduled"]
              /\ startedIn' = [startedIn EXCEPT ![c] = ctxState]
              /\ pc' = [pc EXCEPT ![c] = "awaitPlay"]
              /\ UNCHANGED <<ttsLog, completed>>
    /\ UNCHANGED <<ctxOf, futureResolved, overlapSeen>>
    /\ UNCHANGED <<appVars, ctxVars, pcmVars>>

Playing == {c \in Calls : playback[c] = "playing"}

\* The context's timeline reaches the source's start: audio is heard.
PlaybackBegin(c) ==
    /\ playback[c] = "scheduled"
    /\ ctxState = "running"
    /\ playback' = [playback EXCEPT ![c] = "playing"]
    /\ overlapSeen' = (overlapSeen \/ Playing # {})
    /\ UNCHANGED <<pc, ctxOf, futureResolved, ttsLog, startedIn, completed>>
    /\ UNCHANGED <<appVars, ctxVars, pcmVars>>

\* The buffer has played to its end: the future of playAudioBuffer resolves.
PlaybackEnd(c) ==
    /\ playback[c] = "playing"
    /\ playback' = [playback EXCEPT ![c] = "finished"]
    /\ futureResolved' = [futureResolved EXCEPT ![c] = @ + 1]
    /\ UNCHANGED <<pc, ctxOf, ttsLog, startedIn, completed, overlapSeen>>
    /\ UNCHANGED <<appVars, ctxVars, pcmVars>>

\* playAudioBuffer called without await.
NoAwaitPlay(c) == TRUE

\* `await playAudioBuffer(audioBuffer, ctx)`: the call goes on once the
\* future has resolved.
AwaitPlayReady(c) == futureResolved[c] > 0

\* playTextToSpeech after its last await: the promise resolves.
PlaySettle(c) ==
    /\ pc[c] = "awaitPlay"
    /\ AwaitPlayReady(c)
    /\ Settle(c, Done, ttsLog[c])
    /\ UNCHANGED <<ctxOf, playback, futureResolved, startedIn, overlapSeen>>
    /\ UNCHANGED <<appVars, ctxVars, pcmVars>>

TtsNext ==
    \/ \E c \in Calls, o \in SyncOutcomes, s \in NewContextStates :
          PlayTextToSpeech(c, o, s)
    \/ \E ok \in BOOLEAN : ResumeSettle(ok)
    \/ \E c \in Calls, r \in TtsResponses : TtsResponse(c, r)
    \/ \E c \in Calls, o \in DecodeOutcomes : DecodeSettle(c, o)
    \/ \E c \in Calls : PlaybackBegin(c)
    \/ \E c \in Calls : PlaybackEnd(c)
    \/ \E c \in Calls : PlaySettle(c)

\* ------------------------------------------------------------------ Init
AppInit ==
    /\ view = HOME
    /\ loading = FALSE
    /\ currentLesson = NOLESSON
    /\ chatHistory = <<[role |-> "model", text |-> GREETING]>>
    /\ inputMessage = <<>>
    /\ lessonPending = <<>>
    /\ chatPending = <<>>
    /\ lastLoad = "none"

TtsInit ==
    /\ audioContext = NULL
    /\ ctxCreated = 0
    /\ ctxState = "none"
    /\ resumeCalls = 0
    /\ resumePending = FALSE
    /\ pc = [c \in Calls |-> "idle"]
    /\ ctxOf = [c \in Calls |-> NULL]
    /\ playback = [c \in Calls |-> "none"]
    /\ futureResolved = [c \in Calls |-> 0]
    /\ ttsLog = [c \in Calls |-> "none"]
    /\ startedIn = [c \in Calls |-> "none"]
    /\ completed = <<>>
    /\ overlapSeen = FALSE

PcmIdle ==
    /\ pcmBytes = <<>>
    /\ pcmChannels = 1
    /\ pcmFrame = [status |-> "none", frameCount |-> 0, samples |-> <<>>]

Init == AppInit /\ TtsInit /\ PcmIdle

\* The application shell: navigation, lesson loading and the chat.
Next == AppNext

Spec == Init /\ [][Next]_vars

\* The audio pipeline with the navigation and lesson loading that put its
\* buttons on screen (everything but the chat input).
NavNext ==
    \/ GoHome
    \/ GoChat
    \/ \E t \in Topics : HandleTopicSelect(t)
    \/ \E i \in 1..Len(lessonPending), r \in LessonResponses :
          TopicSelectSettle(i, r)

TtsSpecNext == TtsNext \/ NavNext

SpecTts == Init /\ [][TtsSpecNext]_vars

\* A caller that awaits the promise of each playTextToSpeech call before it
\* issues the next one.
AllSettled == \A c \in Calls : pc[c] \in {"idle", Done, Rejected}

AwaitingCaller(c, out, init) == AllSettled /\ PlayTextToSpeech(c, out, init)

SeqNext ==
    \/ \E c \in Calls, o \in SyncOutcomes, s \in NewContextStates :
          AwaitingCaller(c, o, s)
    \/ \E ok \in BOOLEAN : ResumeSettle(ok)
    \/ \E c \in Calls, r \in TtsResponses : TtsResponse(c, r)
    \/ \E c \in Calls, o \in DecodeOutcomes : DecodeSettle(c, o)
    \/ \E c \in Calls : PlaybackBegin(c)
    \/ \E c \in Calls : PlaybackEnd(c)
    \/ \E c \in Calls : PlaySettle(c)
    \/ NavNext

SpecSeq == Init /\ [][SeqNext]_vars

\* ------------------------------------------------- PCM frame interpreter
ByteVals == {0, 1, 127, 128, 255}

ChannelCounts == {1, 2}

ByteSeqs == UNION {[1..n -> ByteVals] : n \in 0..MaxBytes}

\* The two bytes read as an unsigned value.
Uint16LE(lo, hi) == lo + 256 * hi

\* Int16Array element: two bytes, little-endian, two's complement.
Int16LE(lo, hi) ==
    LET u == lo + 256 * hi IN IF u >= 32768 THEN u - 65536 ELSE u

\* Byte k of the sequence, k counted from 0 as in the source.
ByteAt(bytes, k) == bytes[k + 1]

\* decodeAudioData(bytes, sampleRate, channelCount): the frame, each sample
\* given by its numerator v of v / 32768. `lenient` chooses truncation of a
\* trailing partial frame over a FormatError.
decodeAudioData(bytes, numChannels, lenient) ==
    LET frameCount == (Len(bytes) \div 2) \div numChannels
        aligned == Len(bytes) % (2 * numChannels) = 0
    IN IF ~aligned /\ ~lenient
       THEN [status |-> "FormatError", frameCount |-> 0, samples |-> <<>>]
       ELSE [status |-> "ok",
             frameCount |-> frameCount,
             samples |-> [c \in 0..(numChannels - 1) |->
                            [i \in 0..(frameCount - 1) |->
                               Int16LE(ByteAt(bytes, (i * numChannels + c) * 2),
                                       ByteAt(bytes, (i * numChannels + c) * 2 + 1))]]]

NoFrame == [status |-> "none", frameCount |-> 0, samples |-> <<>>]

DecodePcm(lenient) ==
    /\ pcmFrame.status = "none"
    /\ pcmFrame' = decodeAudioData(pcmBytes, pcmChannels, lenient)
    /\ UNCHANGED <<pcmBytes, pcmChannels>>
    /\ UNCHANGED <<appVars, ctxVars, callVars>>

PcmInit ==
    /\ AppInit /\ TtsInit
    /\ pcmBytes \in ByteSeqs
    /\ pcmChannels \in ChannelCounts
    /\ pcmFrame = NoFrame

PcmNext == \E lenient \in BOOLEAN : DecodePcm(lenient)

SpecPcm == PcmInit /\ [][PcmNext]_vars

\* =================================================================== claims

\* What the catch block of playTextToSpeech can have logged for a call.
FailureLogs == {"client", "context", "api", "decode", "pcm", "play"}

\* C1: playTextToSpeech never propagates a failure: whatever fails (client or
\* context construction, the TTS request, decode, decodeAudioData,
\* playAudioBuffer), the promise of the call is resolved and never rejected,
\* and the step in which the failure is caught leaves view, loading,
\* currentLesson and chatHistory as they were.
C1_NeverPropagates ==
    /\ [](\A c \in Calls :
            /\ pc[c] # Rejected
            /\ ttsLog[c] \in FailureLogs => pc[c] = Done)
    /\ [][(\E c \in Calls : ttsLog'[c] # ttsLog[c])
            => UNCHANGED <<view, loading, currentLesson, chatHistory>>]_vars

\* A playback failure was caught while a lesson is on screen.
C1_Witness ==
    \E c \in Calls :
        /\ pc[c] = Done /\ ttsLog[c] = "play"
        /\ view = LESSON /\ currentLesson # NOLESSON

\* C2 as stated: a malformed base64 payload makes the call fail observably
\* for the caller of playTextToSpeech, while a playback-stage failure is
\* swallowed.
C2_DecodeErrorVisible ==
    \A c \in Calls :
        /\ ttsLog[c] = "decode" => pc[c] = Rejected
        /\ ttsLog[c] = "play" => pc[c] = Done

\* C2 amended: there is no asymmetry at playTextToSpeech. A decode error and
\* a playback-stage failure are both logged and swallowed: the promise is
\* resolved, no playback exists for the call, and the call is not retried
\* (once settled it stays settled and its log is kept).
C2_BothSwallowed ==
    /\ [](\A c \in Calls :
            ttsLog[c] \in {"decode", "play"}
                => pc[c] = Done /\ playback[c] = "none")
    /\ [][\A c \in Calls :
            pc[c] = Done => pc'[c] = Done /\ ttsLog'[c] = ttsLog[c]]_vars

\* One call swallowed a decode error and another a playback failure.
C2_Witness ==
    \E c, d \in Calls :
        /\ pc[c] = Done /\ ttsLog[c] = "decode"
        /\ pc[d] = Done /\ ttsLog[d] = "play"

\* C3: whenever a call hands its buffer to playAudioBuffer, the shared
\* context is not suspended (the resume requested by getAudioContext has
\* completed by then).
C3_NotSuspendedAtStart ==
    \A c \in Calls : startedIn[c] # "suspended"

\* C4: the AudioContext is a lazily created singleton: none before the first
\* call, at most one ever constructed, every call holds that instance, it is
\* never replaced or reset; getAudioContext on a running context changes
\* nothing of the context, and resume is called only on a suspended one.
C4_Singleton ==
    /\ [](/\ ctxCreated <= 1
          /\ (audioContext = NULL) <=> (ctxCreated = 0)
          /\ (\A c \in Calls : pc[c] = "idle") => audioContext = NULL
          /\ \A c \in Calls : ctxOf[c] # NULL => ctxOf[c] = audioContext)
    /\ [][/\ audioContext # NULL => audioContext' = audioContext
          /\ resumeCalls' # resumeCalls =>
                /\ resumeCalls' = resumeCalls + 1
                /\ ctxState' = "suspended"
          /\ (audioContext # NULL /\ ctxState = "running") => UNCHANGED ctxVars
         ]_vars

\* Two calls hold the one context, the second one having found it running.
C4_Witness ==
    /\ ctxCreated = 1 /\ audioContext = 1
    /\ ctxOf[1] = 1 /\ ctxOf[2] = 1
    /\ ctxState = "running" /\ resumeCalls = 1

PlaybackRank(p) ==
    CASE p = "none" -> 0
      [] p = "scheduled" -> 1
      [] p = "playing" -> 2
      [] OTHER -> 3

\* C5: a playback goes scheduled -> playing -> finished, one stage at a time
\* and never backwards; the future of playAudioBuffer resolves at most once
\* and only for a finished playback; a call that started a playback is not
\* settled before that playback is finished.
C5_PlaybackLifecycle ==
    /\ [](\A c \in Calls :
            /\ futureResolved[c] <= 1
            /\ (futureResolved[c] = 1) <=> (playback[c] = "finished")
            /\ (pc[c] = Done /\ playback[c] # "none")
                  => playback[c] = "finished")
    /\ [][\A c \in Calls :
            \/ playback'[c] = playback[c]
            \/ PlaybackRank(playback'[c]) = PlaybackRank(playback[c]) + 1]_vars

\* A call is settled after its playback has ended.
C5_Witness ==
    \E c \in Calls :
        pc[c] = Done /\ playback[c] = "finished" /\ futureResolved[c] = 1

\* C6: when the caller awaits each playTextToSpeech promise before it issues
\* the next call, no two playbacks are ever playing at the same time.
C6_NoOverlapWhenAwaited ==
    /\ Cardinality(Playing) <= 1
    /\ ~overlapSeen
    /\ \A c, d \in Calls :
          (c < d /\ playback[d] # "none") => playback[c] \in {"none", "finished"}

\* The second call is playing after the first call's playback has ended.
C6_Witness ==
    playback[1] = "finished" /\ pc[1] = Done /\ playback[2] = "playing"

\* C7: playback calls are neither queued nor mutually exclusive: a speak
\* button starts a new call while earlier calls are pending, a decoded call
\* hands its buffer to playAudioBuffer whatever the other playbacks do, and a
\* scheduled playback on a running context starts playing whatever else is
\* playing.
C7_NotQueued ==
    \A c \in Calls :
        /\ (/\ pc[c] = "idle"
            /\ \A d \in Calls : d < c => pc[d] # "idle"
            /\ SpeakButtonShown)
              => ENABLED PlayTextToSpeech(c, "ok", "running")
        /\ pc[c] = "awaitDecode" => ENABLED DecodeSettle(c, "play")
        /\ (playback[c] = "scheduled" /\ ctxState = "running")
              => ENABLED PlaybackBegin(c)

\* Two playbacks were playing together, and the call issued second settled
\* first.
C7_Witness ==
    /\ overlapSeen
    /\ Len(completed) >= 2 /\ completed[1] = 2 /\ completed[2] = 1
    /\ playback[1] = "finished" /\ playback[2] = "finished"

\* The signed 16-bit value of two little-endian bytes, by modular arithmetic.
Signed16(lo, hi) == ((lo + 256 * hi + 32768) % 65536) - 32768

\* C8: for bytes whose length is a multiple of 2 * channelCount the decoded
\* frame has length / (2 * channelCount) samples per channel, sample i of
\* channel c is the signed little-endian 16-bit integer at byte offset
\* (i * channelCount + c) * 2 (over 32768); 0x00 0x80 gives -32768 (-1),
\* 0xFF 0x7F gives 32767, zero bytes give zero samples, and every numerator
\* lies in [-32768, 32768].
C8_PcmFrames ==
    (pcmFrame.status # "none" /\ Len(pcmBytes) % (2 * pcmChannels) = 0) =>
        /\ pcmFrame.status = "ok"
        /\ pcmFrame.frameCount * 2 * pcmChannels = Len(pcmBytes)
        /\ DOMAIN pcmFrame.samples = 0..(pcmChannels - 1)
        /\ \A c \in 0..(pcmChannels - 1) :
              /\ DOMAIN pcmFrame.samples[c] = 0..(pcmFrame.frameCount - 1)
              /\ \A i \in 0..(pcmFrame.frameCount - 1) :
                    LET off == (i * pcmChannels + c) * 2
                        v == pcmFrame.samples[c][i]
                    IN /\ v = Signed16(pcmBytes[off + 1], pcmBytes[off + 2])
                       /\ v >= -32768 /\ v <= 32768
                       /\ (pcmBytes[off + 1] = 0 /\ pcmBytes[off + 2] = 128)
                             => v = -32768
                       /\ (pcmBytes[off + 1] = 255 /\ pcmBytes[off + 2] = 127)
                             => v = 32767
                       /\ (pcmBytes[off + 1] = 0 /\ pcmBytes[off + 2] = 0)
                             => v = 0

\* A two-channel frame holding -32768 and 32767 was decoded.
C8_Witness ==
    /\ pcmFrame.status = "ok"
    /\ pcmBytes = <<0, 128, 255, 127>> /\ pcmChannels = 2
    /\ pcmFrame.frameCount = 1

IsPrefix(s, t) == Len(s) <= Len(t) /\ SubSeq(t, 1, Len(s)) = s

\* model, user, model, ... : odd positions model, even positions user.
Alternates(h) ==
    \A i \in 1..Len(h) :
        h[i].role = IF i % 2 = 1 THEN "model" ELSE "user"

ModelTexts == {GREETING, FALLBACK, NOTEXT, "Good job!"}

\* C9: chatHistory is append-only and ordered. Every step keeps the old list
\* as a prefix and adds at most one entry; a user entry is the non-blank input
\* of an accepted send, a model entry answers the request in flight; the
\* list starts with the greeting, alternates model, user, model, ... whenever
\* no chat request is in flight, and ends with the unanswered user message
\* while one is; a send with blank input adds nothing.
C9_AppendOnly ==
    /\ [](/\ Len(chatHistory) >= 1
          /\ chatHistory[1] = [role |-> "model", text |-> GREETING]
          /\ chatPending = <<>> =>
                (Alternates(chatHistory) /\ Len(chatHistory) % 2 = 1)
          /\ chatPending # <<>> =>
                /\ Alternates(chatHistory) /\ Len(chatHistory) % 2 = 0
                /\ chatHistory[Len(chatHistory)].text = chatPending[1])
    /\ [][/\ IsPrefix(chatHistory, chatHistory')
          /\ Len(chatHistory') <= Len(chatHistory) + 1
          /\ Len(chatHistory') = Len(chatHistory) + 1 =>
                LET m == chatHistory'[Len(chatHistory')] IN
                IF m.role = "user"
                THEN /\ ~IsBlank(inputMessage) /\ m.text = inputMessage
                     /\ chatPending' = Append(chatPending, inputMessage)
                ELSE /\ m.role = "model" /\ m.text \in ModelTexts
                     /\ Len(chatPending) = Len(chatPending') + 1
          /\ IsBlank(inputMessage) =>
                (chatHistory' = chatHistory \/ chatPending # <<>>)
         ]_vars

\* Two sends were answered, the second one by the fallback text.
C9_Witness ==
    /\ Len(chatHistory) = 5 /\ chatPending = <<>>
    /\ chatHistory[2].role = "user" /\ chatHistory[3].text = "Good job!"
    /\ chatHistory[4].text = <<" ", "o", "k", " ">>
    /\ chatHistory[5].text = FALLBACK

\* generateLesson and sendChatMessage requests in flight.
InFlight == Len(lessonPending) + Len(chatPending)

\* C10: loading is a mutex over the UI's requests: at most one generateLesson
\* or sendChatMessage request is in flight, and loading is true exactly
\* while one is (so it is false again once the request has succeeded or
\* failed).
C10_LoadingMutex ==
    /\ InFlight <= 1
    /\ loading <=> (InFlight = 1)

\* A chat request is in flight while the home view shows the topic buttons.
C10_Witness ==
    /\ loading /\ Len(chatPending) = 1 /\ view = HOME
    /\ ~TopicButtonEnabled

\* Lessons generateLesson can return.
Lessons ==
    {generateLesson(t, r).lesson : t \in Topics, r \in {"full", "empty"}}

\* C11: in every state view = LESSON implies currentLesson is not null: the
\* view enters LESSON only in the step of handleTopicSelect that stores a
\* generated lesson, and a stored lesson is never reset to null, whatever
\* the user navigated to while the request was pending.
C11_LessonViewHasLesson ==
    /\ [](/\ view = LESSON => currentLesson # NOLESSON
          /\ currentLesson \in Lessons \cup {NOLESSON})
    /\ [][/\ (view' = LESSON /\ view # LESSON) =>
                /\ Len(lessonPending') < Len(lessonPending)
                /\ currentLesson' \in Lessons
                /\ ~loading'
          /\ currentLesson # NOLESSON => currentLesson' # NOLESSON
         ]_vars

\* The lesson view shows a lesson built from the defaults of generateLesson,
\* stored on top of nothing or of an earlier lesson.
C11_Witness ==
    /\ view = LESSON
    /\ currentLesson.title = "Untitled Lesson"
    /\ ~loading /\ lessonPending = <<>>

\* A step in which a handleTopicSelect call ends with its failure alert.
LoadFails ==
    /\ Len(lessonPending') < Len(lessonPending)
    /\ lastLoad' = "alert"

\* C12: a failed lesson load changes nothing but the loading flag: the step
\* in which generateLesson's rejection is handled leaves view, currentLesson
\* and chatHistory (and the chat input) as they were, sets loading to false,
\* and leaves no request in flight (no retry); a load that ends in LESSON
\* with a new lesson is one that did not fail.
C12_FailedLoadFrame ==
    /\ [][LoadFails =>
            /\ UNCHANGED <<view, currentLesson, chatHistory, inputMessage>>
            /\ loading /\ ~loading'
            /\ lessonPending' = <<>> /\ chatPending' = chatPending
         ]_vars
    /\ [][\A r \in {"noText", "badJson", "apiError"} :
            TopicSelectSettle(1, r) => LoadFails]_vars

\* The latest load failed while the user had gone to the chat: the chat
\* stays on screen, the lesson of an earlier load is kept, nothing is loading.
C12_Witness ==
    /\ lastLoad = "alert"
    /\ view = CHAT /\ currentLesson.title = "Animals"
    /\ ~loading /\ lessonPending = <<>> /\ chatPending = <<>>

====
